---- MODULE Spec2Model ----
(***************************************************************************)
(* Model of compare_performance.py: the PerformanceComparison driver       *)
(* (clear_caches, run_version, compare_results, run_comparison) and main.  *)
(*                                                                         *)
(* Numbers.  Every metric value is an IEEE double, held exactly.  A value   *)
(* shown in the table is in thousandths (12.500 is 12500), a ratio in      *)
(* hundredths (5.00 is 500).  Decimal literals and clock readings are      *)
(* given in tenths (12.5 is 125).                                          *)
(* Text.  A line of standard output is a sequence of tokens: words, and    *)
(* the colon as a token of its own.                                        *)
(* Files.  A cache directory is "absent" or the sequence of the sizes of   *)
(* its files, each size counted in units of FileUnitBytes bytes.           *)
(* Failure.  An exception nothing catches ends the process: pc "crashed".  *)
(***************************************************************************)
EXTENDS Integers, Sequences, FiniteSets, TLC

VARIABLES
    pc,                \* position of the driver in main / run_comparison
    entry,             \* "main": the script is run; "call": run_comparison is called directly
    argv,              \* the command-line flags (sys.argv)
    dirExists,         \* label -> whether the version directory exists
    clear_cache_first, \* the parameter of run_comparison
    cache,             \* label -> "absent" or the files of that label's cache directory
    results,           \* self.results: label -> mapping metric -> value
    ret,               \* label -> what run_version returned for it
    build,             \* label -> outcome of the build step
    run,               \* label -> outcome of the run step
    calls,             \* how often each external step and clear_caches was invoked
    sawMarker,         \* label -> the run's standard output held a recognized marker line
    cacheAfterRun,     \* label -> the label's cache directory existed when the run ended
    table,             \* the rows compare_results printed
    compared,          \* compare_results was entered
    record,            \* performance_comparison.json: written or not, and its content
    usage,             \* the usage text was printed
    exitCode           \* exit status of the process, "none" while running

vars == <<pc, entry, argv, dirExists, clear_cache_first, cache, results, ret, build,
          run, calls, sawMarker, cacheAfterRun, table, compared, record, usage, exitCode>>

----------------------------------------------------------------------------
(* Bounds and input sets *)

MaxLines == 1
MaxFiles == 1

Labels == {"original", "optimized"}
Other(l) == IF l = "original" THEN "optimized" ELSE "original"

Flags == {"--no-clear", "--help"}

TimeoutSeconds == 600

\* The readings of time.time() before and after a run step (lines 60, 68), in
\* tenths of a second: 0.3 s apart, and 600.1 s apart (a run can end with
\* status 0 and readings further apart than the bound of subprocess.run).
ClockSpans == {<<10, 13>>, <<13, 13 + TimeoutSeconds * 10 + 1>>}
\* The time the child process takes on the timer of subprocess.run (lines 61-67),
\* in tenths of a second; the last one exceeds the bound.
ChildTimes == {8, TimeoutSeconds * 10 + 1}

ReturnCodes == {0, 1}

FileUnitBytes == 512 * 1024
FileSizes == {1}

RECURSIVE SeqsUpTo(_, _)
SeqsUpTo(S, n) ==
    IF n = 0 THEN {<<>>}
    ELSE LET shorter == SeqsUpTo(S, n - 1)
         IN  shorter \cup {Append(s, x) : s \in {t \in shorter : Len(t) = n - 1}, x \in S}

CacheDirs == {".timstof_cache", ".timstof_cache_optimized"}
Absent == [exists |-> FALSE]
Dir(files) == [exists |-> TRUE, files |-> files]
DirStates == {Absent} \cup {Dir(f) : f \in SeqsUpTo(FileSizes, MaxFiles)}
Exists(d) == d.exists

Lines ==
    { <<"Cache", "loading", "time", ":", "12.5", "seconds">>,
      <<"12", ":", "30", "CACHE", "SAVING", "TIME", ":", "2.5", "s">>,
      <<"Cache", "loading", "time", ":", "abc", "seconds">>,
      <<"Raw", "data", "reading", "time", ":", "0", "s">>,
      <<"Total", "data", "preparation", "time", ":">>,
      <<"Elapsed", ":", "2.5", "s">> }

Outputs == SeqsUpTo(Lines, MaxLines)

----------------------------------------------------------------------------
(* Mappings (Python dicts) *)

EmptyMap == [k \in {} |-> 0]
Get(d, k, default) == IF k \in DOMAIN d THEN d[k] ELSE default
Put(d, k, v) == [x \in (DOMAIN d) \cup {k} |-> IF x = k THEN v ELSE d[x]]

None == [kind |-> "None"]
Some(t) == [kind |-> "dict", val |-> t]

\* The function f held as a table of its values.
Table(f) == f @@ << >>

----------------------------------------------------------------------------
(* Binary floating point *)

(* Every metric value is an IEEE double, held exactly: Zero, or m / 2^k with  *)
(* 2^52 <= m < 2^53.  m is a natural of any size, a sequence of limbs, least  *)
(* significant first, base LimbBase.  Values are non-negative and below 2^31. *)

LimbBase == 2^15

RECURSIVE BigNorm(_)
BigNorm(a) ==
    IF a = << >> THEN << >>
    ELSE IF a[Len(a)] = 0 THEN BigNorm(SubSeq(a, 1, Len(a) - 1))
    ELSE a

RECURSIVE BigFromInt(_)
BigFromInt(n) ==
    IF n = 0 THEN << >> ELSE <<n % LimbBase>> \o BigFromInt(n \div LimbBase)

RECURSIVE BigToInt(_)
BigToInt(a) == IF a = << >> THEN 0 ELSE Head(a) + LimbBase * BigToInt(Tail(a))

\* a * s + carry, for s below LimbBase.
RECURSIVE BigMulSmall(_, _, _)
BigMulSmall(a, s, carry) ==
    IF a = << >> THEN BigFromInt(carry)
    ELSE LET v == Head(a) * s + carry
         IN  <<v % LimbBase>> \o BigMulSmall(Tail(a), s, v \div LimbBase)

RECURSIVE BigAdd(_, _, _)
BigAdd(a, b, carry) ==
    IF a = << >> /\ b = << >> THEN BigFromInt(carry)
    ELSE LET x == IF a = << >> THEN 0 ELSE Head(a)
             y == IF b = << >> THEN 0 ELSE Head(b)
             v == x + y + carry
         IN  <<v % LimbBase>> \o BigAdd(IF a = << >> THEN a ELSE Tail(a),
                                        IF b = << >> THEN b ELSE Tail(b),
                                        v \div LimbBase)

\* a - b - borrow, for a >= b + borrow; the result may end in zero limbs.
RECURSIVE BigSub(_, _, _)
BigSub(a, b, borrow) ==
    IF a = << >> THEN << >>
    ELSE LET y == (IF b = << >> THEN 0 ELSE Head(b)) + borrow
             v == Head(a) - y
         IN  <<IF v >= 0 THEN v ELSE v + LimbBase>>
                 \o BigSub(Tail(a), IF b = << >> THEN b ELSE Tail(b),
                           IF v >= 0 THEN 0 ELSE 1)

\* a * 2^bits.
BigShift(a, bits) ==
    LET whole == BigMulSmall(a, 2^(bits % 15), 0)
    IN  IF whole = << >> THEN whole ELSE [i \in 1..(bits \div 15) |-> 0] \o whole

RECURSIVE BigMul(_, _)
BigMul(a, b) ==
    IF b = << >> THEN << >>
    ELSE LET rest == BigMul(a, Tail(b))
         IN  BigAdd(BigMulSmall(a, Head(b), 0),
                    IF rest = << >> THEN rest ELSE <<0>> \o rest, 0)

\* Quotient and remainder of a by d, for 0 < d < LimbBase.
RECURSIVE BigDivSmall(_, _)
BigDivSmall(a, d) ==
    IF a = << >> THEN [q |-> << >>, r |-> 0]
    ELSE LET hi  == BigDivSmall(Tail(a), d)
             cur == hi.r * LimbBase + Head(a)
         IN  [q |-> BigNorm(<<cur \div d>> \o hi.q), r |-> cur % d]

\* The whole part of a / 2^bits.
BigShiftRight(a, bits) ==
    IF bits \div 15 >= Len(a) THEN << >>
    ELSE BigDivSmall(SubSeq(a, bits \div 15 + 1, Len(a)), 2^(bits % 15)).q

\* -1, 0 or 1 as a < b, a = b or a > b.
RECURSIVE BigCmpFrom(_, _, _)
BigCmpFrom(a, b, i) ==
    IF i = 0 THEN 0
    ELSE IF a[i] > b[i] THEN 1
    ELSE IF a[i] < b[i] THEN -1
    ELSE BigCmpFrom(a, b, i - 1)

BigCmp(a, b) ==
    LET x == BigNorm(a)
        y == BigNorm(b)
    IN  IF Len(x) > Len(y) THEN 1
        ELSE IF Len(x) < Len(y) THEN -1
        ELSE BigCmpFrom(x, y, Len(x))

BigOdd(a) == a # << >> /\ Head(a) % 2 = 1

RECURSIVE BitLen(_)
BitLen(n) == IF n = 0 THEN 0 ELSE 1 + BitLen(n \div 2)

BigBitLen(a) == IF a = << >> THEN 0 ELSE (Len(a) - 1) * 15 + BitLen(a[Len(a)])

\* n / 2^bits rounded to the nearest natural, ties to even.
RoundShift(n, bits) ==
    LET q == BigShiftRight(n, bits)
        c == BigCmp(BigShift(n, 1), BigShift(BigMulSmall(q, 2, 1), bits))
    IN  IF c > 0 \/ (c = 0 /\ BigOdd(q)) THEN BigAdd(q, <<1>>, 0) ELSE q

Zero == [m |-> << >>, k |-> 0]

\* The double nearest to n / 2^k (ties to even), for a natural n > 0.
RoundToDouble(n, k) ==
    LET len == BigBitLen(n)
    IN  IF len <= 53 THEN [m |-> BigShift(n, 53 - len), k |-> k + 53 - len]
        ELSE LET m == RoundShift(n, len - 53)
             IN  IF BigBitLen(m) = 54
                 THEN [m |-> BigShiftRight(m, 1), k |-> k - (len - 53) - 1]
                 ELSE [m |-> m, k |-> k - (len - 53)]

\* The double nearest to num / den, for naturals num < 2^31 and 0 < den < LimbBase
\* (an int divided by an int; the float of a decimal literal).
DoubleOfRatio(num, den) ==
    IF num = 0 THEN Zero
    ELSE LET t == 64 + BitLen(den) - BitLen(num)
             d == BigDivSmall(BigShift(BigFromInt(num), t), den)
         IN  RoundToDouble(BigMulSmall(d.q, 2, IF d.r = 0 THEN 0 ELSE 1), t + 1)

\* The double nearest to n tenths: float("0.3") is Double(3).
Double(n) == DoubleOfRatio(n, 10)

\* a - b on doubles, for a >= b (line 68).
Difference(a, b) ==
    IF b = Zero THEN a
    ELSE LET k == IF a.k >= b.k THEN a.k ELSE b.k
             n == BigNorm(BigSub(BigShift(a.m, k - a.k), BigShift(b.m, k - b.k), 0))
         IN  IF n = << >> THEN Zero ELSE RoundToDouble(n, k)

\* x > 0 on a double.
Positive(x) == x.m # << >>

\* f"{x:.3f}": the exact value of the double rounded to thousandths, ties to even.
Format3(x) ==
    IF x = Zero THEN 0 ELSE BigToInt(RoundShift(BigMulSmall(x.m, 1000, 0), x.k))

\* -1, 0 or 1 as the exact quotient a / b of two doubles is below, equal to or
\* above num / 2^k.
QuotientCmp(a, b, num, k) ==
    BigCmp(BigShift(a.m, b.k + k), BigShift(BigMul(num, b.m), a.k))

\* h plus the whole part of (n - h d) / d, for naturals n and d > 0 with
\* n - h d < 2^(i + 1) d, found bit by bit from above.
RECURSIVE FloorQuotient(_, _, _, _)
FloorQuotient(n, d, h, i) ==
    IF i < 0 THEN h
    ELSE IF BigCmp(BigMul(BigFromInt(h + 2^i), d), n) <= 0
         THEN FloorQuotient(n, d, h + 2^i, i - 1)
         ELSE FloorQuotient(n, d, h, i - 1)

\* -1, 0 or 1 as the double a / b (the double nearest to the exact quotient,
\* ties to even) is below, equal to or above (2 h + 1) / 200, the value midway
\* between the hundredths h and h + 1.  That value is the double t / 2^kt when
\* the remainder is 0 (0.375 is one), and lies between t / 2^kt and the next
\* double otherwise; the quotient rounds across a midpoint of two doubles.
DivisionVsTie(a, b, h) ==
    LET tie   == BigFromInt(2 * h + 1)
        first == 60 - BigBitLen(tie)
        t1    == BigDivSmall(BigShift(tie, first), 200)
        kt    == IF BigBitLen(t1.q) = 53 THEN first ELSE first + 1
        t     == IF kt = first THEN t1 ELSE BigDivSmall(BigShift(tie, kt), 200)
        twice == BigMulSmall(t.q, 2, 0)
        above == QuotientCmp(a, b, BigAdd(twice, <<1>>, 0), kt + 1)
        below == IF BigBitLen(BigSub(t.q, <<1>>, 0)) < 53
                 THEN QuotientCmp(a, b, BigSub(BigMulSmall(t.q, 4, 0), <<1>>, 0), kt + 2)
                 ELSE QuotientCmp(a, b, BigSub(twice, <<1>>, 0), kt + 1)
    IN  IF above > 0 \/ (above = 0 /\ BigOdd(t.q)) THEN 1
        ELSE IF t.r # 0 THEN -1
        ELSE IF below < 0 \/ (below = 0 /\ BigOdd(t.q)) THEN -1
        ELSE 0

\* f"{speedup:.2f}" of speedup = orig_val / opt_val (lines 143-147), in
\* hundredths, for positive doubles: the exact value of the double quotient
\* rounded to hundredths, ties to even.
Format2(a, b) ==
    LET n == BigShift(BigMulSmall(a.m, 100, 0), b.k)
        d == BigShift(b.m, a.k)
        h == FloorQuotient(n, d, 0, BigBitLen(n) - BigBitLen(d))
        e == DivisionVsTie(a, b, h)
    IN  IF e > 0 THEN h + 1
        ELSE IF e < 0 THEN h
        ELSE IF h % 2 = 0 THEN h ELSE h + 1

----------------------------------------------------------------------------
(* run_version: scanning the captured standard output (lines 75-103) *)

\* str.lower() on the words the inputs use; any other word is unchanged.
Lower(w) ==
    CASE w = "Cache"   -> "cache"
      [] w = "CACHE"   -> "cache"
      [] w = "SAVING"  -> "saving"
      [] w = "TIME"    -> "time"
      [] w = "Raw"     -> "raw"
      [] w = "Total"   -> "total"
      [] w = "Elapsed" -> "elapsed"
      [] OTHER         -> w

\* `phrase in line.lower()`: the phrase's words occur next to each other.
Contains(line, phrase) ==
    \E i \in 1..(Len(line) - Len(phrase) + 1) :
        \A j \in 1..Len(phrase) : Lower(line[i + j - 1]) = phrase[j]

\* The if/elif chain of lines 80-103: the first marker the line holds.
LineKey(line) ==
    IF Contains(line, <<"cache", "loading", "time">>) THEN "cache_loading"
    ELSE IF Contains(line, <<"cache", "saving", "time">>) THEN "cache_saving"
    ELSE IF Contains(line, <<"raw", "data", "reading", "time">>) THEN "raw_reading"
    ELSE IF Contains(line, <<"total", "data", "preparation", "time">>) THEN "total_preparation"
    ELSE "none"

\* line.split(':')[-1]: what follows the last colon, the whole line without one.
AfterLastColon(line) ==
    LET colons == {i \in 1..Len(line) : line[i] = ":"}
        last   == IF colons = {} THEN 0 ELSE CHOOSE i \in colons : \A j \in colons : j <= i
    IN  SubSeq(line, last + 1, Len(line))

\* float(): the decimal literals of the inputs; anything else raises ValueError.
FloatLiterals == {"12.5", "2.5", "0", "12", "30"}
Tenths(tok) ==
    CASE tok = "12.5" -> 125
      [] tok = "2.5"  -> 25
      [] tok = "0"    -> 0
      [] tok = "12"   -> 120
      [] tok = "30"   -> 300
Float(tok) == Double(Tenths(tok))
\* Float on each literal, evaluated once.
Floats == Table([tok \in FloatLiterals |-> Float(tok)])

\* float(line.split(':')[-1].strip().split()[0]) inside try/except: IndexError
\* when nothing follows the colon, ValueError when the token is no number.
ExtractTime(line) ==
    LET rest == AfterLastColon(line)
    IN  IF rest = <<>> THEN [ok |-> FALSE]
        ELSE IF rest[1] \in FloatLiterals THEN [ok |-> TRUE, val |-> Floats[rest[1]]]
        ELSE [ok |-> FALSE]

\* ParseLine without the test for a marker: every line is scanned for a number.
ParseLineAnyLine(timings, line) ==
    LET key == LineKey(line)
        t   == ExtractTime(line)
    IN  IF t.ok THEN Put(timings, IF key = "none" THEN "cache_loading" ELSE key, t.val)
        ELSE timings

ParseLine(timings, line) ==
    LET key == LineKey(line)
    IN  IF key = "none" THEN timings
        ELSE LET t == ExtractTime(line)
             IN  IF t.ok THEN Put(timings, key, t.val) ELSE timings

RECURSIVE ParseLines(_, _)
ParseLines(timings, lines) ==
    IF lines = <<>> THEN timings
    ELSE ParseLines(ParseLine(timings, Head(lines)), Tail(lines))

----------------------------------------------------------------------------
(* run_version: the cache size (lines 107-115) *)

RECURSIVE SumSeq(_)
SumSeq(s) == IF s = <<>> THEN 0 ELSE Head(s) + SumSeq(Tail(s))

\* cache_size / (1024 * 1024): the int as a double, exact below 2^53, and a
\* division by 2^20, exact as well.
CacheSizeMb(files) ==
    LET cache_size == DoubleOfRatio(SumSeq(files) * FileUnitBytes, 1)
    IN  IF cache_size = Zero THEN Zero ELSE [m |-> cache_size.m, k |-> cache_size.k + 20]

CacheDirOf(version_name) ==
    IF version_name = "original" THEN ".timstof_cache" ELSE ".timstof_cache_optimized"

\* The mapping run_version returns after a successful run (lines 75-117).
\* CacheSizeMb on each directory content, evaluated once.
CacheSizes == Table([files \in SeqsUpTo(FileSizes, MaxFiles) |-> CacheSizeMb(files)])

Timings(version_name, stdout, total_time, c) ==
    LET scraped == ParseLines(EmptyMap, stdout)
        timed   == Put(scraped, "total_execution", total_time)
        dir     == c[CacheDirOf(version_name)]
    IN  IF Exists(dir) THEN Put(timed, "cache_size_mb", CacheSizes[dir.files]) ELSE timed

\* BuildFailed testing for a signal (negative status) only.
BuildFailedBySignal(returncode) == returncode < 0

BuildFailed(returncode) == returncode # 0
RunFailed(returncode) == returncode # 0
\* subprocess.run(timeout=600) on a child taking `elapsed` tenths of a second on
\* its timer: the bound is exceeded.  The clock readings play no part in it.
TimeoutExpired(elapsed) == elapsed > TimeoutSeconds * 10
\* total_time = time.time() - start_time (lines 60, 68).
TotalTime(span) == Difference(Double(span[2]), Double(span[1]))
\* TotalTime on each span, evaluated once.
TotalTimes == Table([span \in ClockSpans |-> TotalTime(span)])

----------------------------------------------------------------------------
(* clear_caches (lines 22-38) *)

\* clear_caches without its second half (lines 33-38).
clear_caches_original_only(c) ==
    [d \in CacheDirs |-> IF d = ".timstof_cache" /\ Exists(c[d]) THEN Absent ELSE c[d]]

clear_caches(c) == [d \in CacheDirs |-> IF Exists(c[d]) THEN Absent ELSE c[d]]

----------------------------------------------------------------------------
(* compare_results (lines 119-153) *)

metrics ==
    << <<"Cache Loading", "cache_loading">>,
       <<"Cache Saving", "cache_saving">>,
       <<"Raw Data Reading", "raw_reading">>,
       <<"Total Preparation", "total_preparation">>,
       <<"Total Execution", "total_execution">>,
       <<"Cache Size (MB)", "cache_size_mb">> >>

MetricKeys == {metrics[i][2] : i \in 1..Len(metrics)}
TimingKeys == MetricKeys \ {"cache_size_mb"}

NA == [kind |-> "N/A"]
\* The values a metric can take: a scraped number, a wall-clock time, a cache
\* size, and the 0 standing for a missing key (lines 138-139).
MetricValues ==
    {Zero} \union {Floats[tok] : tok \in FloatLiterals}
           \union {TotalTimes[span] : span \in ClockSpans}
           \union {CacheSizes[files] : files \in SeqsUpTo(FileSizes, MaxFiles)}

\* Format3 and Format2 on the values of the metrics, evaluated once.
Shown == Table([x \in MetricValues |-> Format3(x)])
Ratios ==
    Table([pair \in MetricValues \X (MetricValues \ {Zero}) |-> Format2(pair[1], pair[2])])

\* A value cell: f"{x:.3f}".
Num(x) == [kind |-> "num", v |-> Shown[x]]

Speedup(key, orig_val, opt_val) ==
    [kind |-> "ratio", x100 |-> Ratios[<<orig_val, opt_val>>],
     frame |-> IF key = "cache_size_mb" THEN "smaller" ELSE "faster"]


BothPositive(orig_val, opt_val) == Positive(orig_val) /\ Positive(opt_val)

\* The rows one metric prints: one row, or none (lines 138-153).
Row(display_name, key, res) ==
    LET orig_val == Get(res["original"], key, Zero)
        opt_val  == Get(res["optimized"], key, Zero)
    IN  IF BothPositive(orig_val, opt_val)
        THEN << [name |-> display_name, key |-> key, orig |-> Num(orig_val),
                 opt |-> Num(opt_val), speedup |-> Speedup(key, orig_val, opt_val)] >>
        ELSE IF Positive(orig_val)
        THEN << [name |-> display_name, key |-> key, orig |-> Num(orig_val),
                 opt |-> NA, speedup |-> NA] >>
        ELSE IF Positive(opt_val)
        THEN << [name |-> display_name, key |-> key, orig |-> NA,
                 opt |-> Num(opt_val), speedup |-> NA] >>
        ELSE << >>

RECURSIVE Rows(_, _)
Rows(i, res) ==
    IF i > Len(metrics) THEN << >>
    ELSE Row(metrics[i][1], metrics[i][2], res) \o Rows(i + 1, res)

compare_results(res) == Rows(1, res)

\* Truth value of what run_version returned: neither None nor an empty mapping.
Truthy(r) == r.kind = "dict" /\ DOMAIN r.val # {}

\* ShouldCompare with `or` for `and`.
ShouldCompareEither(res) == res["original"] # EmptyMap \/ res["optimized"] # EmptyMap

\* Line 184: both mappings are non-empty.
ShouldCompare(res) == res["original"] # EmptyMap /\ res["optimized"] # EmptyMap

----------------------------------------------------------------------------
(* main: command line (lines 194-207) *)

DirsMissing(dirs) == ~dirs["original"] \/ ~dirs["optimized"]
\* ClearCache ignoring the flag.
ClearCacheAlways(args) == TRUE
\* HelpRequested looking for another spelling of the flag.
HelpRequestedShort(args) == "-h" \in args

ClearCache(args) == "--no-clear" \notin args
HelpRequested(args) == "--help" \in args

----------------------------------------------------------------------------
(* The state machine *)

BeginPc(l) == IF l = "original" THEN "begin_original" ELSE "begin_optimized"
RunPc(l) == IF l = "original" THEN "run_original" ELSE "run_optimized"
\* What follows run_version for a label in run_comparison (lines 171, 183).
AfterPc(l) == IF l = "original" THEN "clear_between" ELSE "compare"

MarkerPhrases ==
    { <<"cache", "loading", "time">>, <<"cache", "saving", "time">>,
      <<"raw", "data", "reading", "time">>, <<"total", "data", "preparation", "time">> }
HasMarker(stdout) ==
    \E i \in 1..Len(stdout) : \E ph \in MarkerPhrases : Contains(stdout[i], ph)

Init ==
    /\ entry \in {"main", "call"}
    /\ argv \in (IF entry = "main" THEN SUBSET Flags ELSE {{}})
    /\ clear_cache_first \in (IF entry = "main" THEN {TRUE} ELSE BOOLEAN)
    /\ dirExists \in [Labels -> BOOLEAN]
    /\ cache \in [CacheDirs -> DirStates]
    /\ pc = IF entry = "main" THEN "main" ELSE "clear_first"
    /\ results = [l \in Labels |-> EmptyMap]
    /\ ret = [l \in Labels |-> [kind |-> "not_called"]]
    /\ build = [l \in Labels |-> "not_run"]
    /\ run = [l \in Labels |-> "not_run"]
    /\ calls = [clear |-> 0, build |-> [l \in Labels |-> 0], run |-> [l \in Labels |-> 0]]
    /\ sawMarker = [l \in Labels |-> FALSE]
    /\ cacheAfterRun = [l \in Labels |-> FALSE]
    /\ table = << >>
    /\ compared = FALSE
    /\ record = [written |-> FALSE]
    /\ usage = FALSE
    /\ exitCode = "none"

\* main, lines 194-197: not in the expected directory.
MainWrongDirectory ==
    /\ pc = "main"
    /\ DirsMissing(dirExists)
    /\ pc' = "exit"
    /\ exitCode' = "1"
    /\ UNCHANGED <<entry, argv, dirExists, clear_cache_first, cache, results, ret, build,
                   run, calls, sawMarker, cacheAfterRun, table, compared, record, usage>>

\* main, lines 204-207.
MainHelp ==
    /\ pc = "main"
    /\ ~DirsMissing(dirExists)
    /\ HelpRequested(argv)
    /\ usage' = TRUE
    /\ pc' = "exit"
    /\ exitCode' = "0"
    /\ UNCHANGED <<entry, argv, dirExists, clear_cache_first, cache, results, ret, build,
                   run, calls, sawMarker, cacheAfterRun, table, compared, record>>

\* main, lines 202 and 209: run_comparison is entered.
MainRun ==
    /\ pc = "main"
    /\ ~DirsMissing(dirExists)
    /\ ~HelpRequested(argv)
    /\ clear_cache_first' = ClearCache(argv)
    /\ pc' = "clear_first"
    /\ UNCHANGED <<entry, argv, dirExists, cache, results, ret, build, run, calls,
                   sawMarker, cacheAfterRun, table, compared, record, usage, exitCode>>

\* run_comparison, lines 160-161 and 172-173.
ClearCaches ==
    /\ pc \in {"clear_first", "clear_between"}
    /\ clear_cache_first
    /\ cache' = clear_caches(cache)
    /\ calls' = [calls EXCEPT !.clear = @ + 1]
    /\ pc' = IF pc = "clear_first" THEN BeginPc("original") ELSE BeginPc("optimized")
    /\ UNCHANGED <<entry, argv, dirExists, clear_cache_first, results, ret, build, run,
                   sawMarker, cacheAfterRun, table, compared, record, usage, exitCode>>

SkipClear ==
    /\ pc \in {"clear_first", "clear_between"}
    /\ ~clear_cache_first
    /\ pc' = IF pc = "clear_first" THEN BeginPc("original") ELSE BeginPc("optimized")
    /\ UNCHANGED <<entry, argv, dirExists, clear_cache_first, cache, results, ret, build,
                   run, calls, sawMarker, cacheAfterRun, table, compared, record, usage,
                   exitCode>>

\* run_comparison, lines 168-169 and 180-181: the version directory is missing.
Warn(l) ==
    /\ pc = BeginPc(l)
    /\ ~dirExists[l]
    /\ pc' = AfterPc(l)
    /\ UNCHANGED <<entry, argv, dirExists, clear_cache_first, cache, results, ret, build,
                   run, calls, sawMarker, cacheAfterRun, table, compared, record, usage,
                   exitCode>>

\* run_version, lines 45-57: the build step; a failed build returns None, which
\* run_comparison (lines 166, 178) does not store.
Build(l) ==
    /\ pc = BeginPc(l)
    /\ dirExists[l]
    /\ \E returncode \in ReturnCodes :
        /\ build' = [build EXCEPT ![l] = IF returncode = 0 THEN "ok" ELSE "failed"]
        /\ calls' = [calls EXCEPT !.build[l] = @ + 1]
        /\ IF BuildFailed(returncode)
           THEN /\ ret' = [ret EXCEPT ![l] = None]
                /\ pc' = AfterPc(l)
           ELSE /\ ret' = ret
                /\ pc' = RunPc(l)
    /\ UNCHANGED <<entry, argv, dirExists, clear_cache_first, cache, results, run,
                   sawMarker, cacheAfterRun, table, compared, record, usage, exitCode>>

\* run_version, lines 59-67: subprocess.run raises TimeoutExpired when the run
\* step exceeds the bound; nothing in run_version, run_comparison or main catches it.
RunTimesOut(l) ==
    /\ pc = RunPc(l)
    /\ \E elapsed \in ChildTimes, after \in [CacheDirs -> DirStates] :
        /\ TimeoutExpired(elapsed)
        /\ cache' = after
    /\ run' = [run EXCEPT ![l] = "timeout"]
    /\ calls' = [calls EXCEPT !.run[l] = @ + 1]
    /\ pc' = "crashed"
    /\ exitCode' = "1"
    /\ UNCHANGED <<entry, argv, dirExists, clear_cache_first, results, ret, build,
                   sawMarker, cacheAfterRun, table, compared, record, usage>>

\* run_version, lines 59-73: the run step ends in time with a non-zero status.
RunFails(l) ==
    /\ pc = RunPc(l)
    /\ \E elapsed \in ChildTimes, returncode \in ReturnCodes,
          after \in [CacheDirs -> DirStates] :
        /\ ~TimeoutExpired(elapsed)
        /\ RunFailed(returncode)
        /\ cache' = after
    /\ run' = [run EXCEPT ![l] = "failed"]
    /\ calls' = [calls EXCEPT !.run[l] = @ + 1]
    /\ ret' = [ret EXCEPT ![l] = None]
    /\ pc' = AfterPc(l)
    /\ UNCHANGED <<entry, argv, dirExists, clear_cache_first, results, build,
                   sawMarker, cacheAfterRun, table, compared, record, usage, exitCode>>

\* run_version, lines 59-117, and the assignment of lines 166-167 / 178-179.
RunSucceeds(l) ==
    /\ pc = RunPc(l)
    /\ \E elapsed \in ChildTimes, span \in ClockSpans, returncode \in ReturnCodes,
          stdout \in Outputs, after \in [CacheDirs -> DirStates] :
        /\ ~TimeoutExpired(elapsed)
        /\ ~RunFailed(returncode)
        /\ cache' = after
        /\ LET timings == Timings(l, stdout, TotalTimes[span], after)
           IN  /\ ret' = [ret EXCEPT ![l] = Some(timings)]
               /\ results' = IF Truthy(Some(timings))
                             THEN [results EXCEPT ![l] = timings]
                             ELSE results
        /\ sawMarker' = [sawMarker EXCEPT ![l] = HasMarker(stdout)]
        /\ cacheAfterRun' = [cacheAfterRun EXCEPT ![l] = after[CacheDirOf(l)].exists]
    /\ run' = [run EXCEPT ![l] = "ok"]
    /\ calls' = [calls EXCEPT !.run[l] = @ + 1]
    /\ pc' = AfterPc(l)
    /\ UNCHANGED <<entry, argv, dirExists, clear_cache_first, build, table, compared,
                   record, usage, exitCode>>

\* run_comparison, lines 184-185.
Compare ==
    /\ pc = "compare"
    /\ ShouldCompare(results)
    /\ table' = compare_results(results)
    /\ compared' = TRUE
    /\ pc' = "persist"
    /\ UNCHANGED <<entry, argv, dirExists, clear_cache_first, cache, results, ret, build,
                   run, calls, sawMarker, cacheAfterRun, record, usage, exitCode>>

SkipCompare ==
    /\ pc = "compare"
    /\ ~ShouldCompare(results)
    /\ pc' = "persist"
    /\ UNCHANGED <<entry, argv, dirExists, clear_cache_first, cache, results, ret, build,
                   run, calls, sawMarker, cacheAfterRun, table, compared, record, usage,
                   exitCode>>

\* run_comparison, lines 188-190; main then returns and the process exits with 0.
Persist ==
    /\ pc = "persist"
    /\ record' = [written |-> TRUE, data |-> results]
    /\ pc' = "done"
    /\ exitCode' = IF entry = "main" THEN "0" ELSE exitCode
    /\ UNCHANGED <<entry, argv, dirExists, clear_cache_first, cache, results, ret, build,
                   run, calls, sawMarker, cacheAfterRun, table, compared, usage>>

Next ==
    \/ MainWrongDirectory
    \/ MainHelp
    \/ MainRun
    \/ ClearCaches
    \/ SkipClear
    \/ \E l \in Labels : Warn(l)
    \/ \E l \in Labels : Build(l)
    \/ \E l \in Labels : RunTimesOut(l)
    \/ \E l \in Labels : RunFails(l)
    \/ \E l \in Labels : RunSucceeds(l)
    \/ Compare
    \/ SkipCompare
    \/ Persist

Spec == Init /\ [][Next]_vars

----------------------------------------------------------------------------
(* Properties *)

Finished == pc \in {"done", "crashed"}
NoExternalStep ==
    /\ calls.clear = 0
    /\ \A l \in Labels : calls.build[l] = 0 /\ calls.run[l] = 0
    /\ ~record.written
    /\ ~compared
Stored(l) == IF ret[l].kind = "dict" THEN ret[l].val ELSE EmptyMap

\* C1: every call of run_comparison that has ended has written the record, holding
\* both labels' results, whatever the outcome of each build and run step
\* (a run step exceeding the 600-second bound included).
C1_AlwaysPersists ==
    Finished => (record.written /\ record.data = results)

\* C2: a run step exceeding the 600-second bound makes run_version return None
\* for that label, adds nothing to its results, and lets the driver go on.
C2_TimeoutReturnsAbsent ==
    \A l \in Labels :
        run[l] = "timeout" =>
            /\ ret[l] = None
            /\ results[l] = EmptyMap
            /\ pc # "crashed"

\* C3: a build step exiting non-zero makes run_version return None without the
\* run step, leaves the label's results empty, is not retried; the other
\* label's build and run are carried out all the same (its directory existing)
\* and its results are what its own run_version gave.
C3_BuildFailureIsLocal ==
    \A l \in Labels :
        build[l] = "failed" =>
            /\ ret[l] = None
            /\ calls.run[l] = 0
            /\ run[l] = "not_run"
            /\ calls.build[l] = 1
            /\ results[l] = EmptyMap
            /\ pc # BeginPc(l) /\ pc # RunPc(l)
            /\ results[Other(l)] = Stored(Other(l))
            /\ (pc \in {"compare", "persist", "done", "crashed"} /\ dirExists[Other(l)]) =>
                  /\ calls.build[Other(l)] = 1
                  /\ build[Other(l)] = "ok" => calls.run[Other(l)] = 1

C3_Witness ==
    /\ pc = "done"
    /\ build["original"] = "failed"
    /\ run["optimized"] = "ok"
    /\ results["optimized"] # EmptyMap
    /\ record.written

\* The ratio h, in hundredths, is the quotient a / b of two positive doubles to two
\* decimals: 2 |100 a - h b| <= b (1 + 2^-40), the margin being for the rounding
\* of the floating-point division.
WithinHalfHundredth(h, a, b) ==
    LET x    == BigShift(BigMulSmall(a.m, 100, 0), b.k)
        y    == BigShift(BigMul(BigFromInt(h), b.m), a.k)
        unit == BigShift(b.m, a.k)
        diff == IF BigCmp(x, y) >= 0 THEN BigSub(x, y, 0) ELSE BigSub(y, x, 0)
    IN  BigCmp(BigShift(diff, 41), BigAdd(BigShift(unit, 40), unit, 0)) <= 0

\* C4: in the table of compare_results a metric has a ratio if and only if both
\* results hold a strictly positive value for it; the ratio is original / optimized
\* to two decimals, "smaller" for cache_size_mb and "faster" for the timing metrics;
\* in every other case where a result holds a value for the metric, the metric is
\* reported as unavailable: it has a row, and the row's ratio says N/A.
C4_RatioElseUnavailable ==
    compared =>
        \A i \in 1..Len(metrics) :
            LET key  == metrics[i][2]
                o    == Get(results["original"], key, Zero)
                p    == Get(results["optimized"], key, Zero)
                held == \E l \in Labels : key \in DOMAIN results[l]
                rows == {j \in 1..Len(table) : table[j].key = key}
            IN  /\ Cardinality(rows) <= 1
                /\ (Positive(o) /\ Positive(p)) <=> (\E j \in rows : table[j].speedup.kind = "ratio")
                /\ (held /\ ~(Positive(o) /\ Positive(p))) => (\E j \in rows : table[j].speedup = NA)
                /\ \A j \in rows :
                      IF table[j].speedup.kind = "ratio"
                      THEN /\ p # Zero
                           /\ table[j].orig = Num(o)
                           /\ table[j].opt = Num(p)
                           /\ WithinHalfHundredth(table[j].speedup.x100, o, p)
                           /\ table[j].speedup.frame =
                                 (IF key \in TimingKeys THEN "faster" ELSE "smaller")
                      ELSE table[j].speedup = NA

\* C5: with cache clearing enabled both cache directories are absent when each
\* labeled run begins, whatever the original run left behind.
C5_CachesAbsentAtRunStart ==
    (clear_cache_first /\ pc \in {BeginPc("original"), BeginPc("optimized")}) =>
        \A d \in CacheDirs : ~Exists(cache[d])

C5_Witness ==
    /\ clear_cache_first
    /\ pc = BeginPc("optimized")
    /\ cacheAfterRun["original"]
    /\ calls.clear = 2

\* C6 as stated: every invocation of main with --help prints the usage text and
\* exits with status 0, with no clearing, build, run or write.
C6_HelpAlwaysSucceeds ==
    (entry = "main" /\ "--help" \in argv /\ pc # "main") =>
        /\ pc = "exit"
        /\ usage
        /\ exitCode = "0"
        /\ NoExternalStep

\* C6 amended: an invocation of main with --help clears nothing, builds and runs
\* nothing and writes no record; it prints the usage text and exits with status 0
\* when both version directories exist, and exits with status 1 without the usage
\* text when one is missing.
C6_HelpAfterDirectoryCheck ==
    (entry = "main" /\ "--help" \in argv) =>
        /\ NoExternalStep
        /\ pc \in {"main", "exit"}
        /\ pc = "main" => (~usage /\ exitCode = "none")
        /\ pc = "exit" =>
              IF DirsMissing(dirExists)
              THEN ~usage /\ exitCode = "1"
              ELSE usage /\ exitCode = "0"

C6_Witness ==
    /\ entry = "main"
    /\ argv = {"--help", "--no-clear"}
    /\ pc = "exit"
    /\ usage
    /\ exitCode = "0"

NoClearMode ==
    \/ entry = "main" /\ "--no-clear" \in argv
    \/ entry = "call" /\ ~clear_cache_first

\* C7: with --no-clear (clear_cache_first false) clear_caches is never called, and
\* no step of the driver changes a cache directory: only a run step does.
C7_NoClearLeavesCaches ==
    [][NoClearMode =>
          /\ calls'.clear = 0
          /\ cache' # cache => pc \in {RunPc("original"), RunPc("optimized")}]_vars

C7_Witness ==
    /\ entry = "main"
    /\ "--no-clear" \in argv
    /\ pc = "done"
    /\ \A d \in CacheDirs : Exists(cache[d])
    /\ calls.clear = 0

\* C8: for every metric that exactly one of the two results holds, whatever the
\* value (0 included), the table has a row with that value, the other side N/A
\* and the ratio N/A.
C8_OneSidedRowShown ==
    compared =>
        \A key \in MetricKeys :
            LET inOrig == key \in DOMAIN results["original"]
                inOpt  == key \in DOMAIN results["optimized"]
            IN  (inOrig # inOpt) =>
                    \E j \in 1..Len(table) :
                        /\ table[j].key = key
                        /\ table[j].speedup = NA
                        /\ table[j].orig =
                              (IF inOrig THEN Num(results["original"][key]) ELSE NA)
                        /\ table[j].opt =
                              (IF inOpt THEN Num(results["optimized"][key]) ELSE NA)

\* C9 as stated: after a successful build and run whose output holds no marker
\* line, the returned mapping has no timing entry; it has cache_size_mb exactly
\* when the label's cache directory exists after the run.
C9_NoMarkersNoTimings ==
    \A l \in Labels :
        (run[l] = "ok" /\ ~sawMarker[l]) =>
            /\ ret[l].kind = "dict"
            /\ (DOMAIN ret[l].val) \cap TimingKeys = {}
            /\ ("cache_size_mb" \in DOMAIN ret[l].val) <=> cacheAfterRun[l]

\* C9 amended: after a successful build and run whose output holds no marker
\* line, the returned mapping has no scraped timing entry: its entries are
\* total_execution, always, and cache_size_mb exactly when the label's cache
\* directory exists after the run.
C9_NoMarkersOnlyWallClock ==
    \A l \in Labels :
        (run[l] = "ok" /\ ~sawMarker[l]) =>
            /\ ret[l].kind = "dict"
            /\ (DOMAIN ret[l].val) \cap TimingKeys = {"total_execution"}
            /\ (DOMAIN ret[l].val) \subseteq MetricKeys
            /\ ("cache_size_mb" \in DOMAIN ret[l].val) <=> cacheAfterRun[l]

C9_Witness ==
    /\ run["original"] = "ok"
    /\ ~sawMarker["original"]
    /\ cacheAfterRun["original"]
    /\ DOMAIN ret["original"].val = {"total_execution", "cache_size_mb"}
    /\ run["optimized"] = "ok"
    /\ ~sawMarker["optimized"]
    /\ ~cacheAfterRun["optimized"]
    /\ Shown[ret["optimized"].val["total_execution"]] > TimeoutSeconds * 1000

\* C10: a label whose run_version returned a mapping has that non-empty mapping in
\* results, any other label the empty one; compare_results is entered exactly
\* when both mappings are non-empty, which is exactly when both labels' build and
\* run succeeded, after both runs and before the record is written.
C10_CompareIffBothSucceeded ==
    /\ \A l \in Labels :
          /\ results[l] = Stored(l)
          /\ ret[l].kind = "dict" <=> results[l] # EmptyMap
          /\ ret[l].kind = "dict" <=> (build[l] = "ok" /\ run[l] = "ok")
    /\ compared =>
          /\ pc \in {"persist", "done"}
          /\ \A l \in Labels : calls.run[l] = 1
    /\ pc \in {"persist", "done"} =>
          /\ compared <=> (\A l \in Labels : results[l] # EmptyMap)
          /\ compared <=> (\A l \in Labels : build[l] = "ok" /\ run[l] = "ok")
    /\ pc = "persist" => ~record.written
    /\ record.written => pc = "done"

C10_Witness ==
    /\ pc = "done"
    /\ compared
    /\ record.written
    /\ \A l \in Labels : DOMAIN results[l] = {"total_execution"}
    /\ Shown[results["original"]["total_execution"]] > TimeoutSeconds * 1000

====
